---- MODULE Spec2Model ----
(***************************************************************************)
(* Model of gowp.Pool (the worker pool with the exitFromErrG channel):     *)
(* New/newPool, Submit, Wait, the worker loop `work` and the error         *)
(* handling goroutine started by newPool.                                  *)
(*                                                                         *)
(* Every goroutine is a process with a program counter; one action is one  *)
(* atomic step of a goroutine (a channel operation, an atomic store, a     *)
(* sync primitive).  A Go `select` with several ready cases picks any of   *)
(* them, so every ready case is a separate enabled action.                 *)
(***************************************************************************)
EXTENDS Integers, Sequences, FiniteSets, TLC

\* ---------------------------------------------------------------- bounds
MaxTasks   == 2   \* Submit calls with a non-nil task during one pool lifetime
MaxWorkers == 2   \* largest numWorkers tried
MaxCap     == 2   \* largest numTasks (queue capacity) tried
MaxWaiters == 2   \* callers of Wait

Tasks   == 1..MaxTasks
Waiters == 1..MaxWaiters

\* ------------------------------------------------------- program constants
closedConst == 1   \* const closed uint32 = 1
ErrsCap     == 1   \* errs: make(chan error, 1)

\* error values carried by p.errs / p.err / returned by Wait
NilErr     == 0            \* nil
Canceled   == 0 - 1        \* ctx.Err() after cancel(): context.Canceled
TaskErr(t) == t            \* the failure value returned by task t

\* results of Submit
ErrPoolClosed  == "ErrPoolClosed"
ErrNoBuffer    == "ErrNoBuffer"
ErrInvalidSend == "ErrInvalidSend"
SubmitOK       == "nil"
ErrNilTask     == "ErrNilTask"

\* results of New (NewOK: a pool and a nil error)
ErrInvalidBuffer    == "ErrInvalidBuffer"
ErrInvalidWorkerCnt == "ErrInvalidWorkerCnt"
ErrNilContext       == "ErrNilContext"
NewOK               == "nil"

VARIABLES
    numTasks,     \* capacity of p.in, argument of New
    numWorkers,   \* cfg.numWorkers
    exitOnErr,    \* cfg.exitOnErr
    cancelled,    \* ctx.Done() is closed
    in,           \* p.in: buffered tasks, FIFO
    inClosed,     \* close(p.in) happened
    errs,         \* p.errs: buffered errors (capacity 1)
    quitClosed,   \* close(p.quit) happened
    exitClosed,   \* close(p.exitFromErrG) happened
    closed,       \* p.closed (uint32)
    err,          \* p.err
    wg,           \* p.wg counter
    once,         \* p.closeOnce: "new", "running", "done"
    coordPc,      \* error handling goroutine: "select","closeQuit","send","done"
    coordErr,     \* its local variable err
    wPc,          \* worker w: "select","run","exited"
    wTask,        \* task held by worker w (0 when none)
    subPc,        \* Submit call for task t: "idle","send","done"
    subRes,       \* its return value ("none" until it returns)
    subAt,        \* observation: what had happened when Submit(t) was called
    started,      \* number of times task t was started by a worker
    result,       \* "none", "ok" or "fail": what t() returned
    waitPc,       \* Wait call c: "idle","do","closeIn","store","wgWait","closeExit","recv","returned"
    waitRet,      \* its return value
    drains,       \* observation: number of times the closeOnce body was entered
    earlyCancel,  \* observation: cancel() came before any task returned and before Wait
    newCall,      \* the call of New: its arguments and options, and its error result
    nilCall       \* the last Submit(nil): its result and the pool phase it was made in

vars == <<numTasks, numWorkers, exitOnErr, cancelled, in, inClosed, errs,
          quitClosed, exitClosed, closed, err, wg, once, coordPc, coordErr,
          wPc, wTask, subPc, subRes, subAt, started, result, waitPc, waitRet,
          drains, earlyCancel, newCall, nilCall>>

poolVars  == <<in, inClosed, errs, quitClosed, exitClosed, closed, err, wg, once>>
cfgVars   == <<numTasks, numWorkers, exitOnErr, newCall, nilCall>>
coordVars == <<coordPc, coordErr>>
workVars  == <<wPc, wTask, started, result>>
subVars   == <<subPc, subRes, subAt>>
waitVars  == <<waitPc, waitRet, drains>>
ctxVars   == <<cancelled, earlyCancel>>

Workers == 1..numWorkers

Range(s) == {s[i] : i \in 1..Len(s)}

\* ------------------------------------------------------------------ Init
\* newPool: channels allocated and empty, numWorkers workers added to the
\* WaitGroup and parked at their select, the error goroutine at its select.
\* New was called with valid arguments and returned the pool.
Init ==
    /\ numTasks \in 1..MaxCap
    /\ numWorkers \in 1..MaxWorkers
    /\ exitOnErr \in BOOLEAN
    /\ cancelled = FALSE
    /\ in = <<>>
    /\ inClosed = FALSE
    /\ errs = <<>>
    /\ quitClosed = FALSE
    /\ exitClosed = FALSE
    /\ closed = 0
    /\ err = NilErr
    /\ wg = numWorkers
    /\ once = "new"
    /\ coordPc = "select"
    /\ coordErr = NilErr
    /\ wPc = [w \in 1..numWorkers |-> "select"]
    /\ wTask = [w \in 1..numWorkers |-> 0]
    /\ subPc = [t \in Tasks |-> "idle"]
    /\ subRes = [t \in Tasks |-> "none"]
    /\ subAt = [t \in Tasks |-> [quit |-> FALSE, waited |-> FALSE]]
    /\ started = [t \in Tasks |-> 0]
    /\ result = [t \in Tasks |-> "none"]
    /\ waitPc = [c \in Waiters |-> "idle"]
    /\ waitRet = [c \in Waiters |-> NilErr]
    /\ drains = 0
    /\ earlyCancel = FALSE
    /\ newCall = [numTasks |-> numTasks, withWorkers |-> TRUE,
                  workers |-> numWorkers, withCtx |-> TRUE, ctxNil |-> FALSE,
                  exitOnErr |-> exitOnErr, numCPU |-> 1, err |-> NewOK]
    /\ nilCall = [res |-> "none", at |-> "none"]

\* --------------------------------------------------------------------- New
MinArg == 0 - 1   \* smallest numTasks / WithNumWorkers argument tried

\* The arguments of a call New(numTasks, opts...): each option is given or
\* not; numCPU is what runtime.NumCPU() returns on the machine.
NewArgs ==
    [numTasks : MinArg..MaxCap,
     withWorkers : BOOLEAN, workers : MinArg..MaxWorkers,
     withCtx : BOOLEAN, ctxNil : BOOLEAN,
     exitOnErr : BOOLEAN,
     numCPU : 1..MaxWorkers]

\* cfg := config{ctx: context.TODO(), numWorkers: runtime.NumCPU()} followed
\* by opt(&cfg) for WithNumWorkers, WithContext and WithExitOnError.
ApplyOpts(a) ==
    [numWorkers |-> IF a.withWorkers THEN a.workers ELSE a.numCPU,
     ctxNil     |-> a.withCtx /\ a.ctxNil,
     exitOnErr  |-> a.exitOnErr]

\* Variant of validate that tests the context before the worker count.
validateCtxFirst(cfg) ==
    IF cfg.ctxNil THEN ErrNilContext
    ELSE IF cfg.numWorkers <= 0 THEN ErrInvalidWorkerCnt
    ELSE NewOK

\* (*config).validate
validate(cfg) ==
    IF cfg.numWorkers <= 0 THEN ErrInvalidWorkerCnt
    ELSE IF cfg.ctxNil THEN ErrNilContext
    ELSE NewOK

\* The error returned by New (compared as errors.Is does).
NewErr(a) ==
    IF a.numTasks <= 0 THEN ErrInvalidBuffer ELSE validate(ApplyOpts(a))

\* Before New is called there is no pool: no channel, no worker, no error
\* goroutine.
InitNew ==
    /\ newCall \in {[f \in DOMAIN a \cup {"err"} |->
                        IF f = "err" THEN "pending" ELSE a[f]] : a \in NewArgs}
    /\ (~newCall.withWorkers => newCall.workers = 0)
    /\ (~newCall.withCtx => ~newCall.ctxNil)
    /\ nilCall = [res |-> "none", at |-> "none"]
    /\ numTasks = 0
    /\ numWorkers = 0
    /\ exitOnErr = FALSE
    /\ cancelled = FALSE
    /\ in = <<>>
    /\ inClosed = FALSE
    /\ errs = <<>>
    /\ quitClosed = FALSE
    /\ exitClosed = FALSE
    /\ closed = 0
    /\ err = NilErr
    /\ wg = 0
    /\ once = "new"
    /\ coordPc = "none"
    /\ coordErr = NilErr
    /\ wPc = <<>>
    /\ wTask = <<>>
    /\ subPc = [t \in Tasks |-> "idle"]
    /\ subRes = [t \in Tasks |-> "none"]
    /\ subAt = [t \in Tasks |-> [quit |-> FALSE, waited |-> FALSE]]
    /\ started = [t \in Tasks |-> 0]
    /\ result = [t \in Tasks |-> "none"]
    /\ waitPc = [c \in Waiters |-> "idle"]
    /\ waitRet = [c \in Waiters |-> NilErr]
    /\ drains = 0
    /\ earlyCancel = FALSE

\* New: on an error nothing is created; otherwise
\* newPool(cfg.ctx, cfg.numWorkers, numTasks, cfg.exitOnErr) allocates the
\* channels and starts the error goroutine and cfg.numWorkers workers.
NewCall ==
    /\ newCall.err = "pending"
    /\ newCall' = [newCall EXCEPT !.err = NewErr(newCall)]
    /\ IF NewErr(newCall) = NewOK
         THEN /\ numTasks' = newCall.numTasks
              /\ numWorkers' = ApplyOpts(newCall).numWorkers
              /\ exitOnErr' = ApplyOpts(newCall).exitOnErr
              /\ wg' = ApplyOpts(newCall).numWorkers
              /\ wPc' = [w \in 1..ApplyOpts(newCall).numWorkers |-> "select"]
              /\ wTask' = [w \in 1..ApplyOpts(newCall).numWorkers |-> 0]
              /\ coordPc' = "select"
         ELSE UNCHANGED <<numTasks, numWorkers, exitOnErr, wg, wPc, wTask, coordPc>>
    /\ UNCHANGED <<nilCall, ctxVars, in, inClosed, errs, quitClosed, exitClosed,
                   closed, err, once, coordErr, started, result, subVars,
                   waitVars>>

\* ------------------------------------------------------------- the context
\* cancel() of the context handed to WithContext: closes ctx.Done().
Cancel ==
    /\ ~cancelled
    /\ cancelled' = TRUE
    /\ earlyCancel' = ( /\ \A t \in Tasks : result[t] = "none"
                        /\ \A c \in Waiters : waitPc[c] = "idle" )
    /\ UNCHANGED <<cfgVars, poolVars, coordVars, workVars, subVars, waitVars>>

\* ------------------------------------------------------------------ Submit
\* IsClosed(): atomic load of p.closed compared with the constant.
IsClosed == closed = closedConst

\* Submit, first half: t is not nil; return ErrPoolClosed when IsClosed().
\* Calls are numbered in the order in which they are issued.
SubmitCheck(t) ==
    /\ subPc[t] = "idle"
    /\ \A u \in Tasks : u < t => subPc[u] # "idle"
    /\ subAt' = [subAt EXCEPT ![t] =
                    [quit |-> quitClosed,
                     waited |-> \E c \in Waiters : waitPc[c] = "returned"]]
    /\ IF IsClosed
         THEN /\ subPc' = [subPc EXCEPT ![t] = "done"]
              /\ subRes' = [subRes EXCEPT ![t] = ErrPoolClosed]
         ELSE /\ subPc' = [subPc EXCEPT ![t] = "send"]
              /\ UNCHANGED subRes
    /\ UNCHANGED <<cfgVars, ctxVars, poolVars, coordVars, workVars, waitVars>>

\* The phase of the pool that a Submit call finds.
PoolPhase ==
    IF IsClosed THEN "closed"
    ELSE IF inClosed THEN "closing"
    ELSE IF quitClosed THEN "shutdown"
    ELSE IF Len(in) = numTasks THEN "full"
    ELSE "open"

\* Variant of SubmitNil that tests IsClosed() before the nil test.
SubmitNilClosedFirst ==
    /\ nilCall' = [res |-> IF IsClosed THEN ErrPoolClosed ELSE ErrNilTask,
                   at |-> PoolPhase]
    /\ UNCHANGED <<numTasks, numWorkers, exitOnErr, newCall, ctxVars, poolVars,
                   coordVars, workVars, subVars, waitVars>>

\* Submit(nil): `if t == nil { return ErrNilTask }` is the first statement of
\* submit; nothing else is read or written.
SubmitNil ==
    /\ nilCall' = [res |-> ErrNilTask, at |-> PoolPhase]
    /\ UNCHANGED <<numTasks, numWorkers, exitOnErr, newCall, ctxVars, poolVars,
                   coordVars, workVars, subVars, waitVars>>

\* Variant of SubmitSend that does not look at the free capacity of p.in.
SubmitSendUnbounded(t) ==
    /\ subPc[t] = "send"
    /\ subPc' = [subPc EXCEPT ![t] = "done"]
    /\ IF inClosed
         THEN /\ subRes' = [subRes EXCEPT ![t] = ErrInvalidSend]
              /\ UNCHANGED in
         ELSE /\ in' = Append(in, t)
              /\ subRes' = [subRes EXCEPT ![t] = SubmitOK]
    /\ UNCHANGED <<subAt, cfgVars, ctxVars, inClosed, errs, quitClosed,
                   exitClosed, closed, err, wg, once, coordVars, workVars,
                   waitVars>>

\* Variant of SubmitSend in which a send on the closed p.in is not detected.
SubmitSendNoPanic(t) ==
    /\ subPc[t] = "send"
    /\ subPc' = [subPc EXCEPT ![t] = "done"]
    /\ IF Len(in) < numTasks
         THEN /\ in' = Append(in, t)
              /\ subRes' = [subRes EXCEPT ![t] = SubmitOK]
         ELSE /\ subRes' = [subRes EXCEPT ![t] = ErrNoBuffer]
              /\ UNCHANGED in
    /\ UNCHANGED <<subAt, cfgVars, ctxVars, inClosed, errs, quitClosed,
                   exitClosed, closed, err, wg, once, coordVars, workVars,
                   waitVars>>

\* Submit, second half: select { case p.in <- t: ... default: ErrNoBuffer },
\* a send on a closed channel panics and the deferred recover turns the
\* panic into ErrInvalidSend.
SubmitSend(t) ==
    /\ subPc[t] = "send"
    /\ subPc' = [subPc EXCEPT ![t] = "done"]
    /\ IF inClosed
         THEN /\ subRes' = [subRes EXCEPT ![t] = ErrInvalidSend]
              /\ UNCHANGED in
         ELSE IF Len(in) < numTasks
           THEN /\ in' = Append(in, t)
                /\ subRes' = [subRes EXCEPT ![t] = SubmitOK]
           ELSE /\ subRes' = [subRes EXCEPT ![t] = ErrNoBuffer]
                /\ UNCHANGED in
    /\ UNCHANGED <<subAt, cfgVars, ctxVars, inClosed, errs, quitClosed,
                   exitClosed, closed, err, wg, once, coordVars, workVars,
                   waitVars>>

\* ------------------------------------------------------------------ worker
\* The workers are numWorkers copies of one goroutine without any state of
\* their own between two iterations of the loop, so the workers blocked in
\* the select are interchangeable: the one that the runtime wakes up is
\* numbered as the lowest of them.
AtSelect(w) ==
    /\ wPc[w] = "select"
    /\ \A v \in Workers : v < w => wPc[v] # "select"

\* Variant of WorkerQuit that returns without p.wg.Done().
WorkerQuitNoDone(w) ==
    /\ AtSelect(w)
    /\ quitClosed
    /\ wPc' = [wPc EXCEPT ![w] = "exited"]
    /\ UNCHANGED <<cfgVars, ctxVars, poolVars, coordVars, wTask, started, result,
                   subVars, waitVars>>

\* Variant of WorkerQuit in which the shutdown signal also stops a worker
\* that is running a task (the task is abandoned).
WorkerQuitAnytime(w) ==
    /\ wPc[w] \in {"select", "run"}
    /\ quitClosed
    /\ wPc' = [wPc EXCEPT ![w] = "exited"]
    /\ wg' = wg - 1
    /\ UNCHANGED <<cfgVars, ctxVars, in, inClosed, errs, quitClosed, exitClosed,
                   closed, err, once, coordVars, wTask, started, result,
                   subVars, waitVars>>

\* work: case <-quit: return   (followed by the deferred p.wg.Done())
WorkerQuit(w) ==
    /\ AtSelect(w)
    /\ quitClosed
    /\ wPc' = [wPc EXCEPT ![w] = "exited"]
    /\ wg' = wg - 1
    /\ UNCHANGED <<cfgVars, ctxVars, in, inClosed, errs, quitClosed, exitClosed,
                   closed, err, once, coordVars, wTask, started, result,
                   subVars, waitVars>>

\* Variant of WorkerRecv that runs the head of the queue without removing it.
WorkerRecvPeek(w) ==
    /\ AtSelect(w)
    /\ Len(in) > 0
    /\ wTask' = [wTask EXCEPT ![w] = Head(in)]
    /\ started' = [started EXCEPT ![Head(in)] = @ + 1]
    /\ wPc' = [wPc EXCEPT ![w] = "run"]
    /\ UNCHANGED <<cfgVars, ctxVars, in, inClosed, errs, quitClosed, exitClosed,
                   closed, err, wg, once, coordVars, result, subVars, waitVars>>

\* Variant of WorkerRecv that takes the next task while the previous one is
\* still running (the task is handed to a goroutine of its own).
WorkerRecvSpawn(w) ==
    /\ wPc[w] \in {"select", "run"}
    /\ Len(in) > 0
    /\ in' = Tail(in)
    /\ wTask' = [wTask EXCEPT ![w] = Head(in)]
    /\ started' = [started EXCEPT ![Head(in)] = @ + 1]
    /\ wPc' = [wPc EXCEPT ![w] = "run"]
    /\ UNCHANGED <<cfgVars, ctxVars, inClosed, errs, quitClosed, exitClosed,
                   closed, err, wg, once, coordVars, result, subVars, waitVars>>

\* Variant of WorkerRecv that takes the task enqueued last (a stack).
WorkerRecvLast(w) ==
    /\ AtSelect(w)
    /\ Len(in) > 0
    /\ in' = SubSeq(in, 1, Len(in) - 1)
    /\ wTask' = [wTask EXCEPT ![w] = in[Len(in)]]
    /\ started' = [started EXCEPT ![in[Len(in)]] = @ + 1]
    /\ wPc' = [wPc EXCEPT ![w] = "run"]
    /\ UNCHANGED <<cfgVars, ctxVars, inClosed, errs, quitClosed, exitClosed,
                   closed, err, wg, once, coordVars, result, subVars, waitVars>>

\* work: case t, ok := <-in with ok true: the head of the queue is taken.
WorkerRecv(w) ==
    /\ AtSelect(w)
    /\ Len(in) > 0
    /\ in' = Tail(in)
    /\ wTask' = [wTask EXCEPT ![w] = Head(in)]
    /\ started' = [started EXCEPT ![Head(in)] = @ + 1]
    /\ wPc' = [wPc EXCEPT ![w] = "run"]
    /\ UNCHANGED <<cfgVars, ctxVars, inClosed, errs, quitClosed, exitClosed,
                   closed, err, wg, once, coordVars, result, subVars, waitVars>>

\* Variant of WorkerClosed that returns as soon as p.in is closed, without
\* draining the tasks still buffered.
WorkerClosedEarly(w) ==
    /\ AtSelect(w)
    /\ inClosed
    /\ wPc' = [wPc EXCEPT ![w] = "exited"]
    /\ wg' = wg - 1
    /\ UNCHANGED <<cfgVars, ctxVars, in, inClosed, errs, quitClosed, exitClosed,
                   closed, err, once, coordVars, wTask, started, result,
                   subVars, waitVars>>

\* work: case t, ok := <-in with ok false (closed and drained): return.
WorkerClosed(w) ==
    /\ AtSelect(w)
    /\ inClosed
    /\ Len(in) = 0
    /\ wPc' = [wPc EXCEPT ![w] = "exited"]
    /\ wg' = wg - 1
    /\ UNCHANGED <<cfgVars, ctxVars, in, inClosed, errs, quitClosed, exitClosed,
                   closed, err, once, coordVars, wTask, started, result,
                   subVars, waitVars>>

\* Variant of WorkerRun that never sends the error to p.errs.
WorkerRunDrop(w) ==
    /\ wPc[w] = "run"
    /\ \E fails \in BOOLEAN :
         result' = [result EXCEPT ![wTask[w]] = IF fails THEN "fail" ELSE "ok"]
    /\ wPc' = [wPc EXCEPT ![w] = "select"]
    /\ wTask' = [wTask EXCEPT ![w] = 0]
    /\ UNCHANGED <<cfgVars, ctxVars, poolVars, coordVars, started, subVars,
                   waitVars>>

\* work: err := t() returns, the task decides whether it fails; on a failure
\* select { case errs <- err: default: } follows at once: the error is
\* buffered in p.errs, or dropped when the buffer is full.  The worker is
\* back at the top of the loop.
WorkerRun(w) ==
    /\ wPc[w] = "run"
    /\ \E fails \in BOOLEAN :
         /\ result' = [result EXCEPT ![wTask[w]] = IF fails THEN "fail" ELSE "ok"]
         /\ errs' = IF fails /\ Len(errs) < ErrsCap
                      THEN Append(errs, TaskErr(wTask[w]))
                      ELSE errs
    /\ wPc' = [wPc EXCEPT ![w] = "select"]
    /\ wTask' = [wTask EXCEPT ![w] = 0]
    /\ UNCHANGED <<cfgVars, ctxVars, in, inClosed, quitClosed, exitClosed,
                   closed, err, wg, once, coordVars, started, subVars,
                   waitVars>>

\* ------------------------------------------- the error handling goroutine
\* case <-ctx.Done(): err = ctx.Err(); close(p.quit)
CoordCtx ==
    /\ coordPc = "select"
    /\ cancelled
    /\ coordErr' = Canceled
    /\ quitClosed' = TRUE
    /\ coordPc' = "send"
    /\ UNCHANGED <<cfgVars, ctxVars, in, inClosed, errs, exitClosed, closed,
                   err, wg, once, workVars, subVars, waitVars>>

\* Variant of CoordErrs that closes p.quit whatever exitOnErr is.
CoordErrsAlwaysQuit ==
    /\ coordPc = "select"
    /\ Len(errs) > 0
    /\ coordErr' = Head(errs)
    /\ errs' = Tail(errs)
    /\ coordPc' = "closeQuit"
    /\ UNCHANGED <<cfgVars, ctxVars, in, inClosed, quitClosed, exitClosed,
                   closed, err, wg, once, workVars, subVars, waitVars>>

\* case err = <-p.errs: then close(p.quit) only if exitOnErr
CoordErrs ==
    /\ coordPc = "select"
    /\ Len(errs) > 0
    /\ coordErr' = Head(errs)
    /\ errs' = Tail(errs)
    /\ coordPc' = IF exitOnErr THEN "closeQuit" ELSE "send"
    /\ UNCHANGED <<cfgVars, ctxVars, in, inClosed, quitClosed, exitClosed,
                   closed, err, wg, once, workVars, subVars, waitVars>>

\* Variant of CoordExit that reports a cancellation when Wait asks the
\* goroutine to exit.
CoordExitCanceled ==
    /\ coordPc = "select"
    /\ exitClosed
    /\ coordErr' = Canceled
    /\ coordPc' = "send"
    /\ UNCHANGED <<cfgVars, ctxVars, poolVars, workVars, subVars, waitVars>>

\* case <-p.exitFromErrG: nothing to do, err stays nil
CoordExit ==
    /\ coordPc = "select"
    /\ exitClosed
    /\ coordErr' = NilErr
    /\ coordPc' = "send"
    /\ UNCHANGED <<cfgVars, ctxVars, poolVars, workVars, subVars, waitVars>>

\* close(p.quit) after an error was received with exitOnErr set
CoordCloseQuit ==
    /\ coordPc = "closeQuit"
    /\ quitClosed' = TRUE
    /\ coordPc' = "send"
    /\ UNCHANGED <<cfgVars, ctxVars, in, inClosed, errs, exitClosed, closed,
                   err, wg, once, coordErr, workVars, subVars, waitVars>>

\* Variant of CoordSend that writes nil instead of the captured error.
CoordSendNil ==
    /\ coordPc = "send"
    /\ Len(errs) < ErrsCap
    /\ errs' = Append(errs, NilErr)
    /\ coordPc' = "done"
    /\ UNCHANGED <<cfgVars, ctxVars, in, inClosed, quitClosed, exitClosed,
                   closed, err, wg, once, coordErr, workVars, subVars, waitVars>>

\* p.errs <- err: blocks while the buffer is full
CoordSend ==
    /\ coordPc = "send"
    /\ Len(errs) < ErrsCap
    /\ errs' = Append(errs, coordErr)
    /\ coordPc' = "done"
    /\ UNCHANGED <<cfgVars, ctxVars, in, inClosed, quitClosed, exitClosed,
                   closed, err, wg, once, coordErr, workVars, subVars, waitVars>>

\* -------------------------------------------------------------------- Wait
\* Variant of WaitCall in which a caller that arrives while the body runs
\* does not block (a plain flag instead of sync.Once).
WaitCallNoBlock(c) ==
    /\ waitPc[c] = "idle"
    /\ \A d \in Waiters : d < c => waitPc[d] # "idle"
    /\ IF once = "new"
         THEN /\ once' = "running"
              /\ drains' = drains + 1
              /\ waitPc' = [waitPc EXCEPT ![c] = "closeIn"]
              /\ UNCHANGED waitRet
         ELSE /\ waitPc' = [waitPc EXCEPT ![c] = "returned"]
              /\ waitRet' = [waitRet EXCEPT ![c] = err]
              /\ UNCHANGED <<once, drains>>
    /\ UNCHANGED <<cfgVars, ctxVars, in, inClosed, errs, quitClosed,
                   exitClosed, closed, err, wg, coordVars, workVars, subVars>>

\* Variant of WaitCall without sync.Once: every caller runs the body.
WaitCallNoOnce(c) ==
    /\ waitPc[c] = "idle"
    /\ \A d \in Waiters : d < c => waitPc[d] # "idle"
    /\ once' = "running"
    /\ drains' = drains + 1
    /\ waitPc' = [waitPc EXCEPT ![c] = "closeIn"]
    /\ UNCHANGED <<waitRet, cfgVars, ctxVars, in, inClosed, errs, quitClosed,
                   exitClosed, closed, err, wg, coordVars, workVars, subVars>>

\* Wait is called and the caller arrives at p.closeOnce.Do (sync.Once): the
\* first caller starts the body; a caller that arrives while the body runs
\* blocks in Do; a caller that arrives after the body has finished skips it
\* and returns p.err.  Calls are numbered in the order in which they are made.
WaitCall(c) ==
    /\ waitPc[c] = "idle"
    /\ \A d \in Waiters : d < c => waitPc[d] # "idle"
    /\ CASE once = "new" ->
              /\ once' = "running"
              /\ drains' = drains + 1
              /\ waitPc' = [waitPc EXCEPT ![c] = "closeIn"]
              /\ UNCHANGED waitRet
         [] once = "running" ->
              /\ waitPc' = [waitPc EXCEPT ![c] = "do"]
              /\ UNCHANGED <<once, drains, waitRet>>
         [] once = "done" ->
              /\ waitPc' = [waitPc EXCEPT ![c] = "returned"]
              /\ waitRet' = [waitRet EXCEPT ![c] = err]
              /\ UNCHANGED <<once, drains>>
    /\ UNCHANGED <<cfgVars, ctxVars, in, inClosed, errs, quitClosed,
                   exitClosed, closed, err, wg, coordVars, workVars, subVars>>

\* Variant of WaitDo in which the receive from p.errs stands after
\* closeOnce.Do: a released caller stores a value it finds in p.errs.
WaitDoReread(c) ==
    /\ waitPc[c] = "do"
    /\ once = "done"
    /\ waitPc' = [waitPc EXCEPT ![c] = "returned"]
    /\ IF Len(errs) > 0
         THEN /\ err' = Head(errs)
              /\ errs' = Tail(errs)
              /\ waitRet' = [waitRet EXCEPT ![c] = Head(errs)]
         ELSE /\ waitRet' = [waitRet EXCEPT ![c] = err]
              /\ UNCHANGED <<err, errs>>
    /\ UNCHANGED <<drains, cfgVars, ctxVars, in, inClosed, quitClosed,
                   exitClosed, closed, wg, once, coordVars, workVars, subVars>>

\* A caller blocked in closeOnce.Do is released when the body has finished,
\* and returns p.err.
WaitDo(c) ==
    /\ waitPc[c] = "do"
    /\ once = "done"
    /\ waitPc' = [waitPc EXCEPT ![c] = "returned"]
    /\ waitRet' = [waitRet EXCEPT ![c] = err]
    /\ UNCHANGED <<drains, cfgVars, ctxVars, poolVars, coordVars, workVars,
                   subVars>>

\* Variant of WaitCloseIn that leaves p.in open.
WaitCloseInSkip(c) ==
    /\ waitPc[c] = "closeIn"
    /\ waitPc' = [waitPc EXCEPT ![c] = "store"]
    /\ UNCHANGED <<waitRet, drains, cfgVars, ctxVars, poolVars, coordVars,
                   workVars, subVars>>

\* close(p.in)
WaitCloseIn(c) ==
    /\ waitPc[c] = "closeIn"
    /\ inClosed' = TRUE
    /\ waitPc' = [waitPc EXCEPT ![c] = "store"]
    /\ UNCHANGED <<waitRet, drains, cfgVars, ctxVars, in, errs, quitClosed,
                   exitClosed, closed, err, wg, once, coordVars, workVars,
                   subVars>>

\* Variant of WaitStore that leaves p.closed alone.
WaitStoreSkip(c) ==
    /\ waitPc[c] = "store"
    /\ waitPc' = [waitPc EXCEPT ![c] = "wgWait"]
    /\ UNCHANGED <<waitRet, drains, cfgVars, ctxVars, poolVars, coordVars,
                   workVars, subVars>>

\* atomic.StoreUint32(&p.closed, closed)
WaitStore(c) ==
    /\ waitPc[c] = "store"
    /\ closed' = closedConst
    /\ waitPc' = [waitPc EXCEPT ![c] = "wgWait"]
    /\ UNCHANGED <<waitRet, drains, cfgVars, ctxVars, in, inClosed, errs,
                   quitClosed, exitClosed, err, wg, once, coordVars, workVars,
                   subVars>>

\* Variant of WaitWg that does not wait for the workers.
WaitWgNoBlock(c) ==
    /\ waitPc[c] = "wgWait"
    /\ waitPc' = [waitPc EXCEPT ![c] = "closeExit"]
    /\ UNCHANGED <<waitRet, drains, cfgVars, ctxVars, poolVars, coordVars,
                   workVars, subVars>>

\* p.wg.Wait(): blocks until every worker has called Done
WaitWg(c) ==
    /\ waitPc[c] = "wgWait"
    /\ wg = 0
    /\ waitPc' = [waitPc EXCEPT ![c] = "closeExit"]
    /\ UNCHANGED <<waitRet, drains, cfgVars, ctxVars, poolVars, coordVars,
                   workVars, subVars>>

\* Variant of WaitCloseExit that does not close p.exitFromErrG.
WaitCloseExitSkip(c) ==
    /\ waitPc[c] = "closeExit"
    /\ waitPc' = [waitPc EXCEPT ![c] = "recv"]
    /\ UNCHANGED <<waitRet, drains, cfgVars, ctxVars, poolVars, coordVars,
                   workVars, subVars>>

\* close(p.exitFromErrG)
WaitCloseExit(c) ==
    /\ waitPc[c] = "closeExit"
    /\ exitClosed' = TRUE
    /\ waitPc' = [waitPc EXCEPT ![c] = "recv"]
    /\ UNCHANGED <<waitRet, drains, cfgVars, ctxVars, in, inClosed, errs,
                   quitClosed, closed, err, wg, once, coordVars, workVars,
                   subVars>>

\* p.err = <-p.errs, the last statement of the closeOnce body; the caller
\* then leaves Do and returns p.err (wrapped when it is not nil).
WaitRecv(c) ==
    /\ waitPc[c] = "recv"
    /\ Len(errs) > 0
    /\ err' = Head(errs)
    /\ errs' = Tail(errs)
    /\ once' = "done"
    /\ waitRet' = [waitRet EXCEPT ![c] = Head(errs)]
    /\ waitPc' = [waitPc EXCEPT ![c] = "returned"]
    /\ UNCHANGED <<drains, cfgVars, ctxVars, in, inClosed, quitClosed,
                   exitClosed, closed, wg, coordVars, workVars, subVars>>

\* -------------------------------------------------------------------- Next
Next ==
    \/ Cancel
    \/ \E t \in Tasks : SubmitCheck(t)
    \/ \E t \in Tasks : SubmitSend(t)
    \/ \E w \in Workers : WorkerQuit(w)
    \/ \E w \in Workers : WorkerRecv(w)
    \/ \E w \in Workers : WorkerClosed(w)
    \/ \E w \in Workers : WorkerRun(w)
    \/ CoordCtx
    \/ CoordErrs
    \/ CoordExit
    \/ CoordCloseQuit
    \/ CoordSend
    \/ \E c \in Waiters : WaitCall(c)
    \/ \E c \in Waiters : WaitDo(c)
    \/ \E c \in Waiters : WaitCloseIn(c)
    \/ \E c \in Waiters : WaitStore(c)
    \/ \E c \in Waiters : WaitWg(c)
    \/ \E c \in Waiters : WaitCloseExit(c)
    \/ \E c \in Waiters : WaitRecv(c)

Spec == Init /\ [][Next]_vars

\* The life of one construction: New is called once.
NextNew == NewCall

SpecNew == InitNew /\ [][NextNew]_vars

\* The pool with callers that also pass nil to Submit.
NextNil ==
    \/ Next
    \/ SubmitNil

\* A pool of one worker and a queue of one task, as New(ctx, 1, WithNumWorkers(1)) builds it.
InitNil == Init /\ numWorkers = 1 /\ numTasks = 1

SpecNil == InitNil /\ [][NextNil]_vars

\* Steps of the goroutines the runtime schedules: a goroutine that can run
\* is eventually run, and every task body returns.  Calls of Submit, Wait
\* and cancel() are up to the callers and are not forced.
WorkerStep(w) ==
    /\ w \in Workers
    /\ (WorkerQuit(w) \/ WorkerRecv(w) \/ WorkerClosed(w) \/ WorkerRun(w))

CoordStep == CoordCtx \/ CoordErrs \/ CoordExit \/ CoordCloseQuit \/ CoordSend

WaitStep(c) ==
    \/ WaitDo(c) \/ WaitCloseIn(c) \/ WaitStore(c) \/ WaitWg(c)
    \/ WaitCloseExit(c) \/ WaitRecv(c)

SubmitStep(t) == SubmitSend(t)

Fairness ==
    /\ \A w \in 1..MaxWorkers : WF_vars(WorkerStep(w))
    /\ WF_vars(CoordStep)
    /\ \A c \in Waiters : WF_vars(WaitStep(c))
    /\ \A t \in Tasks : WF_vars(SubmitStep(t))

FairSpec == Spec /\ Fairness

\* ------------------------------------------------------------ observations
Returned(c)  == waitPc[c] = "returned"
WaitCalled   == \E c \in Waiters : waitPc[c] # "idle"
Attempted    == {t \in Tasks : subPc[t] # "idle"}
Accepted     == {t \in Tasks : subRes[t] = SubmitOK}
Failed       == {t \in Tasks : result[t] = "fail"}
RanOnce(t)   == started[t] = 1 /\ result[t] # "none"
CoordCaptured == coordPc \in {"closeQuit", "send", "done"}

\* ------------------------------------------------------------------- C1
\* C1: when at most numTasks tasks are submitted, no task fails and the
\* context is not cancelled, every Submit that returns before Wait is called
\* succeeds, and a Wait that has returned returned nil with every accepted
\* task executed exactly once.
C1_AllTasksRunOnce ==
    (~cancelled /\ Failed = {} /\ Cardinality(Attempted) <= numTasks) =>
        /\ ~WaitCalled =>
              \A t \in Tasks : subPc[t] = "done" => subRes[t] = SubmitOK
        /\ \A c \in Waiters : Returned(c) =>
              /\ waitRet[c] = NilErr
              /\ \A t \in Accepted : RanOnce(t) /\ result[t] = "ok"

\* Both tasks were accepted by a pool of capacity 2 and Wait has returned.
C1_Witness ==
    /\ ~cancelled /\ Failed = {}
    /\ Accepted = Tasks
    /\ Cardinality(Tasks) <= numTasks
    /\ \E c \in Waiters : Returned(c) /\ waitRet[c] = NilErr
    /\ \A t \in Tasks : RanOnce(t)

\* ------------------------------------------------------------------- C2
\* C2: once any Wait call has returned, every worker has exited (none is at
\* its select or running a task), and from then on no task is
\* started.
C2_NoWorkAfterWait ==
    /\ [](\A c \in Waiters : Returned(c) =>
             \A w \in Workers : wPc[w] = "exited")
    /\ [][(\E c \in Waiters : Returned(c)) => started' = started]_vars

\* Wait has returned after a shutdown that left a task in the queue while
\* another one had been executed.
C2_Witness ==
    /\ \E c \in Waiters : Returned(c)
    /\ quitClosed
    /\ Len(in) > 0
    /\ \E t \in Tasks : RanOnce(t)

\* ------------------------------------------------------------------- C3
\* C3: with exit-on-error and no cancellation, when exactly one executed task
\* failed, every Wait that has returned returned that task's failure value.
C3_SingleFailureReturned ==
    \A c \in Waiters :
        (Returned(c) /\ exitOnErr /\ ~cancelled /\ Cardinality(Failed) = 1) =>
            \A t \in Failed : waitRet[c] = TaskErr(t)

\* One task failed, the other one succeeded, and Wait returned the failure.
C3_Witness ==
    /\ exitOnErr /\ ~cancelled
    /\ Cardinality(Failed) = 1
    /\ \E t \in Tasks : result[t] = "ok"
    /\ \E c \in Waiters : Returned(c) /\ \A t \in Failed : waitRet[c] = TaskErr(t)

\* ------------------------------------------------------------------- C4
\* C4: when cancel() came before any task had returned and before Wait was
\* called, every Wait that has returned returned context.Canceled.
C4_EarlyCancelReturned ==
    \A c \in Waiters : (Returned(c) /\ earlyCancel) => waitRet[c] = Canceled

\* ------------------------------------------------------------------- C5
\* C5: when the error goroutine has captured a non-nil value (a reported
\* error or the cancellation error) before Wait receives from p.errs, the
\* value Wait receives, and so returns, is the captured one.
C5_FirstObservedReturned ==
    [][\A c \in Waiters :
          (waitPc[c] = "recv" /\ waitPc'[c] = "returned"
             /\ CoordCaptured /\ coordErr # NilErr) =>
                (err' = coordErr /\ waitRet'[c] = coordErr)]_vars

\* ------------------------------------------------------------------- C6
\* C6: the closeOnce body is entered at most once, a Wait call has returned
\* only when the drain is complete (queue closed, all workers
\* done, result read), and all Wait calls that have returned returned the
\* same value.
C6_WaitIdempotent ==
    /\ drains <= 1
    /\ \A c \in Waiters : Returned(c) =>
          /\ once = "done" /\ drains = 1
          /\ inClosed /\ IsClosed /\ exitClosed /\ wg = 0
    /\ \A c, d \in Waiters :
          (Returned(c) /\ Returned(d)) => (waitRet[c] = waitRet[d] /\ waitRet[c] = err)

\* All Wait calls have returned, with the same non-nil error, after a single
\* drain.
C6_Witness ==
    /\ \A c \in Waiters : Returned(c)
    /\ waitRet[1] # NilErr
    /\ drains = 1

\* ------------------------------------------------------------------- C7
\* C7: a Submit called after some Wait call has returned returns
\* ErrPoolClosed at its closed check, and its task never enters the queue and
\* is never started.
C7_SubmitAfterWaitClosed ==
    \A t \in Tasks : subAt[t].waited =>
        /\ subPc[t] = "done"
        /\ subRes[t] = ErrPoolClosed
        /\ t \notin Range(in)
        /\ started[t] = 0

\* A Submit issued after Wait returned was refused although the queue had
\* free slots.
C7_Witness ==
    \E t \in Tasks :
        /\ subAt[t].waited
        /\ subRes[t] = ErrPoolClosed
        /\ Len(in) < numTasks

\* ------------------------------------------------------------------- C8
\* C8: a Submit called after p.quit was closed returns an error and its task
\* does not enter the queue.
C8_NoSubmitAfterQuit ==
    \A t \in Tasks : (subAt[t].quit /\ subPc[t] = "done") =>
        (subRes[t] # SubmitOK /\ t \notin Range(in) /\ started[t] = 0)

\* ------------------------------------------------------------------- C9
\* C9 (as stated): when Wait has returned, every accepted task has been
\* executed exactly once.
C9_AcceptedAlwaysExecuted ==
    \A c \in Waiters : Returned(c) => \A t \in Accepted : RanOnce(t)

\* C9 (amended): no task is started more than once and only accepted tasks
\* are started; when Wait has returned and p.quit has not been closed, every
\* accepted task has been executed exactly once.
C9_AcceptedExecutedUnlessQuit ==
    /\ \A t \in Tasks : started[t] <= 1 /\ (started[t] = 1 => t \in Accepted)
    /\ \A c \in Waiters : (Returned(c) /\ ~quitClosed) =>
          \A t \in Accepted : RanOnce(t)

\* Without exit-on-error a task failed, p.quit stayed open, and Wait returned
\* after both accepted tasks had run.
C9_Witness ==
    /\ ~quitClosed
    /\ Failed # {}
    /\ Accepted = Tasks
    /\ \E c \in Waiters : Returned(c)
    /\ \A t \in Tasks : RanOnce(t)

\* ------------------------------------------------------------------ C10
\* C10: a Submit that reaches its send while the open queue holds numTasks
\* tasks returns ErrNoBuffer in that same step and leaves the queue as it
\* was; the queue never holds more than numTasks tasks.
C10_NoBufferWhenFull ==
    /\ [][\A t \in Tasks :
             (subPc[t] = "send" /\ subPc'[t] = "done"
                /\ ~inClosed /\ Len(in) = numTasks) =>
             (subRes'[t] = ErrNoBuffer /\ in' = in)]_vars
    /\ [](Len(in) <= numTasks)

\* A Submit was refused with ErrNoBuffer while the queue is full and open.
C10_Witness ==
    \E t \in Tasks :
        /\ subRes[t] = ErrNoBuffer
        /\ Len(in) = numTasks
        /\ ~inClosed
        /\ \A w \in Workers : wPc[w] = "select"
\* ------------------------------------------------------------------ C11
\* C11: a Submit that reaches its send never blocks; when p.in is already
\* closed it returns ErrInvalidSend and leaves the queue as it was.  A Submit
\* that has returned returned nil, ErrPoolClosed, ErrNoBuffer or
\* ErrInvalidSend, and its task is in the queue or was taken by a worker
\* exactly when it returned nil.
C11_SubmitRace ==
    /\ [](\A t \in Tasks :
            /\ subPc[t] = "send" => ENABLED SubmitSend(t)
            /\ subPc[t] = "done" =>
                  subRes[t] \in {SubmitOK, ErrPoolClosed, ErrNoBuffer, ErrInvalidSend}
            /\ (t \in Range(in) \/ started[t] > 0) <=> subRes[t] = SubmitOK)
    /\ [][\A t \in Tasks :
             (subPc[t] = "send" /\ subPc'[t] = "done" /\ inClosed) =>
             (subRes'[t] = ErrInvalidSend /\ in' = in)]_vars

\* A Submit passed the closed check, found p.in closed and returned
\* ErrInvalidSend, all before Wait has stored the closed flag.
C11_Witness ==
    \E t \in Tasks :
        /\ subRes[t] = ErrInvalidSend
        /\ inClosed
        /\ ~IsClosed

\* ------------------------------------------------------------------ C12
\* C12: Submit(nil) returns ErrNilTask in whatever phase the pool is, and the
\* call changes nothing in the pool, the goroutines or the other calls.
C12_NilTaskRefused ==
    /\ [](nilCall.at # "none" => nilCall.res = ErrNilTask)
    /\ [][nilCall' # nilCall =>
             UNCHANGED <<ctxVars, poolVars, coordVars, workVars, subVars,
                         waitVars>>]_vars

\* Submit(nil) returned ErrNilTask on a pool that Wait has closed, after a
\* shutdown that left the queue full.
C12_Witness ==
    /\ nilCall.at = "closed"
    /\ nilCall.res = ErrNilTask
    /\ quitClosed
    /\ Len(in) = numTasks

\* ------------------------------------------------------------------ C13
Running == {t \in Tasks : started[t] > 0 /\ result[t] = "none"}

\* C13: the tasks that are executing are held by distinct workers, so there
\* are at most numWorkers of them; the pool has exactly numWorkers workers,
\* and the WaitGroup counts those that have not returned.
C13_ConcurrencyLimit ==
    /\ Cardinality(Running) <= numWorkers
    /\ \A t \in Running :
          Cardinality({w \in Workers : wPc[w] = "run" /\ wTask[w] = t}) = 1
    /\ DOMAIN wPc = 1..numWorkers
    /\ wg = Cardinality({w \in Workers : wPc[w] # "exited"})

\* Every worker is busy and a task waits in the queue.
C13_Witness ==
    /\ Cardinality(Running) = numWorkers
    /\ Len(in) > 0

\* ------------------------------------------------------------------ C14
\* C14: with exit-on-error, once p.quit is closed no task is started.
C14_NoStartAfterQuit ==
    [][(exitOnErr /\ quitClosed) => started' = started]_vars

\* ------------------------------------------------------------------ C15
\* C15: every Wait call that has been made eventually returns.
C15_WaitTerminates ==
    \A c \in Waiters : (waitPc[c] # "idle") ~> Returned(c)

\* Every Wait call has returned after a failure, a shutdown and tasks left
\* in the queue.
C15_Witness ==
    /\ \A c \in Waiters : Returned(c)
    /\ Failed # {}
    /\ quitClosed
    /\ Len(in) > 0

\* ------------------------------------------------------------------ C16
\* C16: when some executed task failed, a Wait that has returned returned a
\* non-nil error; a worker drops its report only when p.errs already holds a
\* non-nil error.
C16_FailureNotLost ==
    /\ [](\A c \in Waiters : (Returned(c) /\ Failed # {}) => waitRet[c] # NilErr)
    /\ [][\A w \in Workers :
             (wPc[w] = "run" /\ wPc'[w] = "select"
                /\ result'[wTask[w]] = "fail" /\ errs' = errs) =>
             (Len(errs) = ErrsCap /\ Head(errs) # NilErr)]_vars

\* Without exit-on-error every task failed, the context was cancelled, and
\* Wait returned a non-nil error.
C16_Witness ==
    /\ ~exitOnErr /\ cancelled
    /\ Failed = Tasks
    /\ \E c \in Waiters : Returned(c) /\ waitRet[c] # NilErr

\* ------------------------------------------------------------------ C17
\* C17: New returns a pool exactly when numTasks > 0, the worker count is > 0
\* and the context is not nil; otherwise it reports the first failing check
\* in the order numTasks, worker count, context, and no worker and no error
\* goroutine exists.  After a success the pool has the configured workers.
C17_NewValidation ==
    newCall.err # "pending" =>
        LET a      == newCall
            w      == IF a.withWorkers THEN a.workers ELSE a.numCPU
            nilCtx == a.withCtx /\ a.ctxNil
        IN  /\ (a.err = NewOK) <=> (a.numTasks > 0 /\ w > 0 /\ ~nilCtx)
            /\ a.numTasks <= 0 => a.err = ErrInvalidBuffer
            /\ (a.numTasks > 0 /\ w <= 0) => a.err = ErrInvalidWorkerCnt
            /\ (a.numTasks > 0 /\ w > 0 /\ nilCtx) => a.err = ErrNilContext
            /\ a.err # NewOK => (wPc = <<>> /\ coordPc = "none" /\ wg = 0)
            /\ a.err = NewOK =>
                  /\ DOMAIN wPc = 1..w /\ wg = w
                  /\ coordPc = "select"
                  /\ numTasks = a.numTasks

\* New was called with numTasks <= 0, a worker count <= 0, a nil context and
\* exit-on-error, and reported ErrInvalidBuffer.
C17_Witness ==
    /\ newCall.err = ErrInvalidBuffer
    /\ newCall.numTasks <= 0
    /\ newCall.withWorkers /\ newCall.workers <= 0
    /\ newCall.withCtx /\ newCall.ctxNil
    /\ newCall.exitOnErr

\* ------------------------------------------------------------------ C18
\* C18: when Wait has returned, all workers have exited, the error goroutine
\* has terminated, and the value returned is the one that goroutine wrote.
C18_WaitReadsCoordResult ==
    \A c \in Waiters : Returned(c) =>
        /\ \A w \in Workers : wPc[w] = "exited"
        /\ coordPc = "done"
        /\ waitRet[c] = coordErr

\* ------------------------------------------------------------------ C19
\* C19: the error goroutine leaves its select once, keeps the value it
\* captured and stays terminated once it is; after Wait has been called it
\* eventually terminates.
C19_CoordTerminates ==
    /\ WaitCalled ~> (coordPc = "done")
    /\ [][coordPc # "select" => (coordPc' # "select" /\ coordErr' = coordErr)]_vars
    /\ [][coordPc = "done" => coordPc' = "done"]_vars

\* The error goroutine has terminated after it had to wait with its final
\* write until Wait had taken a worker's error out of p.errs.
C19_Witness ==
    /\ coordPc = "done"
    /\ errs = <<coordErr>>
    /\ \E c \in Waiters : Returned(c) /\ waitRet[c] # coordErr

\* ------------------------------------------------------------------ C20
\* C20: when the context is cancelled while some worker has not returned,
\* p.quit is eventually closed.
C20_CancelBroadcast ==
    (cancelled /\ \E w \in Workers : wPc[w] # "exited") ~> quitClosed

\* ------------------------------------------------------------------ C21
\* C21: with exit-on-error, the worker whose task failed takes no further
\* task.  Stated for a pool of one worker, where the worker that starts a
\* task after a failure is the worker whose task failed.
C21_FailedWorkerStops ==
    [][(exitOnErr /\ numWorkers = 1 /\ Failed # {}) => started' = started]_vars

\* ------------------------------------------------------------------ C22
\* C22: without exit-on-error and without cancellation, p.quit is never
\* closed, a worker returns only after p.in was closed, and when Wait has
\* returned every accepted task was executed exactly once and, if a task
\* failed, Wait returned the error of a failed task.
C22_FailureDoesNotStop ==
    (~exitOnErr /\ ~cancelled) =>
        /\ ~quitClosed
        /\ \A w \in Workers : wPc[w] = "exited" => (inClosed /\ Len(in) = 0)
        /\ \A c \in Waiters : Returned(c) =>
              /\ \A t \in Accepted : RanOnce(t)
              /\ Failed # {} => waitRet[c] \in {TaskErr(t) : t \in Failed}

\* One worker without exit-on-error executed both tasks, both failed, and
\* Wait has returned.
C22_Witness ==
    /\ ~exitOnErr /\ ~cancelled
    /\ numWorkers = 1
    /\ Failed = Tasks
    /\ \A t \in Tasks : RanOnce(t)
    /\ \E c \in Waiters : Returned(c)

\* ------------------------------------------------------------------ C23
\* C23: p.in is changed only by an enqueue at its end or by a dequeue of its
\* head, and the task a worker starts is the head, that is the task of the
\* queue that was enqueued first; a pool of one worker starts a task only
\* when no task is running, so it executes the tasks in the order in which
\* they were enqueued.
C23_Fifo ==
    /\ [][in' # in =>
             \/ Len(in) > 0 /\ in' = Tail(in)
             \/ \E t \in Tasks : in' = Append(in, t)]_vars
    /\ [][\A t \in Tasks : started'[t] # started[t] =>
             (Len(in) > 0 /\ t = Head(in) /\ in' = Tail(in))]_vars
    /\ [][(numWorkers = 1 /\ started' # started) => Running = {}]_vars

\* The single worker runs the task of the second Submit call, which was
\* enqueued, and dequeued, ahead of the task of the first call; that task
\* is still queued.
C23_Witness ==
    /\ numWorkers = 1
    /\ wPc[1] = "run" /\ wTask[1] = 2
    /\ in = <<1>>
    /\ started[1] = 0

\* ------------------------------------------------------------------ C24
\* C24: a worker that runs a task keeps running it until the task returns,
\* whatever else happens (cancel(), close(p.quit), Wait); a worker returns
\* only from its select; no task is started twice, and the outcome of a
\* task, once it has returned, does not change.
C24_RunsToCompletion ==
    /\ [][\A w \in Workers : wPc[w] = "run" =>
             \/ wPc'[w] = "run" /\ wTask'[w] = wTask[w]
                  /\ result'[wTask[w]] = "none"
             \/ wPc'[w] = "select" /\ result'[wTask[w]] # "none"]_vars
    /\ [][\A w \in Workers :
             (wPc'[w] = "exited" /\ wPc[w] # "exited") => wPc[w] = "select"]_vars
    /\ [][\A t \in Tasks : result[t] # "none" =>
             (result'[t] = result[t] /\ started'[t] = started[t])]_vars
    /\ [](\A t \in Tasks : started[t] <= 1)
    /\ [](\A t \in Tasks : result[t] # "none" => started[t] = 1)

\* After a cancellation p.quit is closed and a worker has returned on it
\* while another worker is still running the task it had dequeued.
C24_Witness ==
    /\ cancelled /\ quitClosed /\ ~inClosed
    /\ \E w, v \in Workers :
          /\ wPc[w] = "run" /\ result[wTask[w]] = "none"
          /\ wPc[v] = "exited"

\* ------------------------------------------------------------------ C25
\* C25: p.err is assigned only by the last statement of the closeOnce body,
\* which is entered at most once; once p.err holds an error it keeps it.
C25_ErrSetOnce ==
    /\ [][err # NilErr => err' = err]_vars
    /\ [][err' # err => (once = "running" /\ once' = "done")]_vars
    /\ [][once = "done" => (once' = "done" /\ err' = err)]_vars
    /\ [](drains <= 1)

\* Every Wait call has returned the error stored in p.err while p.errs holds
\* another value, written by the error goroutine after Wait's receive.
C25_Witness ==
    /\ err # NilErr
    /\ Len(errs) > 0 /\ Head(errs) # err
    /\ \A c \in Waiters : Returned(c) /\ waitRet[c] = err

C28_NoFabricatedResult ==
    \A c \in Waiters : Returned(c) =>
        /\ waitRet[c] \in {NilErr, Canceled} \cup {TaskErr(t) : t \in Failed}
        /\ waitRet[c] = Canceled => cancelled
        /\ waitRet[c] = NilErr => Failed = {}
        /\ \A t \in Failed : started[t] = 1

\* With exit-on-error every task was executed and failed, and Wait returned
\* context.Canceled.
C28_Witness ==
    /\ \E c \in Waiters : Returned(c) /\ waitRet[c] = Canceled
    /\ Failed = Tasks
    /\ exitOnErr
====
